---- MODULE Spec2Model ----
(***************************************************************************)
(* Drag-and-inertia positioning engine of src/src/Canvas.tsx.              *)
(*                                                                         *)
(* State: the five refs of the component (offset, isDragging, lastPos,     *)
(* velocity, animationFrame), the browser's list of pending                *)
(* requestAnimationFrame callbacks, the handle counter of                  *)
(* requestAnimationFrame, the viewport extents the handlers read, and the  *)
(* translation last written to the content element.  History variables    *)
(* record the run: the number of events handled, the kind of the last     *)
(* one, (in SpecDrag and SpecCoast) the position of the pointer-down and, *)
(* in SpecCoast, the state at the last release and the number of inertia  *)
(* steps run since.                                                        *)
(*                                                                         *)
(* Numbers: pointer coordinates and extents are whole pixels.  offset,     *)
(* velocity and the rendered translation are JavaScript doubles; each is   *)
(* held in fixed point on two limbs: the variable of its name has the      *)
(* value in units of 1/Scale pixel, truncated toward zero, and low has the *)
(* digits below that unit, in units of 1/Guard of it.  Sums are exact; the *)
(* product with 0.9 is rounded away from zero in the last digit.           *)
(***************************************************************************)
EXTENDS Integers, Sequences, FiniteSets, TLC

VARIABLES offset, isDragging, lastPos, velocity, animationFrame,
          pending, nextHandle, viewport, transform,
          events, lastEvent, downPos, released, ran, low

vars == <<offset, isDragging, lastPos, velocity, animationFrame,
          pending, nextHandle, viewport, transform,
          events, lastEvent, downPos, released, ran, low>>

(* ---------------------------- bounds ----------------------------------- *)

\* largest clientX of a pointer event
MaxX == 2

\* largest clientY of a pointer event
MaxY == 1

\* number of pointer and resize events in one behaviour
MaxEvents == 4

\* number of pointer events in one behaviour of SpecLive
MaxLiveEvents == 3

\* number of pointer and resize events in one behaviour of SpecAxis
MaxAxisEvents == 5

\* number of pointer events in one behaviour of SpecCoast
MaxCoastEvents == 4

\* number of pointer events in one behaviour of SpecRelay
MaxRelayEvents == 5

\* proposed offsets of SpecClamp reach this many pixels either side of 0
ClampRange == 3

\* largest handle requestAnimationFrame hands out
MaxHandle == 100

(* ------------------------- number model -------------------------------- *)

\* fixed-point units per pixel
Scale == 10^4

Abs(a) == IF a < 0 THEN -a ELSE a

Min(a, b) == IF a < b THEN a ELSE b

Max(a, b) == IF a > b THEN a ELSE b

\* a whole number of pixels as a fixed-point value
Px(n) == n * Scale

\* units of the low limb per unit of the high limb
Guard == 10^8

\* the double u + f / Guard, in units of 1/Scale pixel
Num(u, f) == [u |-> u, f |-> f]

\* the limbs of u + f / Guard with |f| < Guard and f of the sign of u, for
\* the limb-wise sum u, f of two doubles held that way
Norm(u, f) ==
  IF f >= Guard THEN Num(u + 1, f - Guard)
  ELSE IF f <= -Guard THEN Num(u - 1, f + Guard)
  ELSE IF u > 0 /\ f < 0 THEN Num(u - 1, f + Guard)
  ELSE IF u < 0 /\ f > 0 THEN Num(u + 1, f - Guard)
  ELSE Num(u, f)

\* a + b
Add(a, b) == Norm(a.u + b.u, a.f + b.f)

(* --------------------------- layout ------------------------------------ *)

\* heights of the ten cards
steps == <<200, 400, 150, 150, 150, 150, 150, 150, 150, 150>>

cardWidth == 200

gap == 20

paddingX == 16 * 2

totalWidth == Len(steps) * cardWidth + (Len(steps) - 1) * gap + paddingX

RECURSIVE MaxOf(_)
MaxOf(s) == IF Len(s) = 1 THEN s[1] ELSE Max(s[1], MaxOf(Tail(s)))

tallestCard == MaxOf(steps)

(* --------------------------- viewport ---------------------------------- *)

\* extents the handlers can read: the container's clientWidth and the
\* window's innerWidth and innerHeight, in pixels
Viewports ==
  { [clientWidth |-> 0,    innerWidth |-> 0,    innerHeight |-> 0],
    [clientWidth |-> 2210, innerWidth |-> 2300, innerHeight |-> 431],
    [clientWidth |-> 0,    innerWidth |-> 2211, innerHeight |-> 432],
    [clientWidth |-> 2300, innerWidth |-> 2300, innerHeight |-> 500] }

\* the container width without the fallback to window.innerWidth
ContainerWidthNoFallback(vp) == vp.clientWidth

\* containerRef.current?.clientWidth || window.innerWidth
ContainerWidth(vp) ==
  IF vp.clientWidth # 0 THEN vp.clientWidth ELSE vp.innerWidth

\* the horizontal limit without Math.min(0, ...)
MinXPxUncapped(vp) == ContainerWidth(vp) - totalWidth

\* Math.min(0, containerWidth - totalWidth), in pixels
MinXPx(vp) == Min(0, ContainerWidth(vp) - totalWidth)

\* the vertical limit without the 32 pixels of padding
MinYPxNoPadding(vp) == Min(0, vp.innerHeight - tallestCard)

\* Math.min(0, window.innerHeight - tallestCard - 32), in pixels
MinYPx(vp) == Min(0, vp.innerHeight - tallestCard - 32)

MinX(vp) == Px(MinXPx(vp))

MinY(vp) == Px(MinYPx(vp))

(* ----------------------- clamp and friction ---------------------------- *)

\* a clamp that lets the content overshoot its far edge by half the excess
ClampElastic(lo, proposed) ==
  IF proposed < lo THEN lo - ((lo - proposed) \div 2) ELSE Min(0, proposed)

\* the clamp without its lower limit
ClampNoFloor(lo, proposed) == Min(0, proposed)

\* Math.max(lo, Math.min(0, proposed))
Clamp(lo, proposed) == Max(lo, Min(0, proposed))

\* Math.max(lo, Math.min(0, p)) of the double p, lo a whole number of
\* units: the high limb is clamped, and the low limb is dropped where the
\* value lies beyond a limit by less than a unit
ClampNum(lo, p) ==
  IF Clamp(lo, p.u) # p.u THEN Num(Clamp(lo, p.u), 0)
  ELSE IF (p.u = 0 /\ p.f > 0) \/ (p.u = lo /\ p.f < 0) THEN Num(p.u, 0)
  ELSE p

\* no friction
FrictionNone(v) == v

\* v *= 0.9 of the double v; the magnitude is rounded up in the last digit
\* of the low limb, so that the result exceeds a whole number of units
\* exactly when the product does
Friction(v) ==
  LET s  == IF v.u < 0 \/ v.f < 0 THEN -1 ELSE 1
      h9 == 9 * Abs(v.u)
      l  == ((h9 % 10) * Guard + 9 * Abs(v.f) + 9) \div 10
  IN  Num(s * (h9 \div 10 + l \div Guard), s * (l % Guard))

\* the magnitude of the double n exceeds 0.5 pixel
Exceeds(n) ==
  \/ Abs(n.u) > Scale \div 2
  \/ Abs(n.u) = Scale \div 2 /\ n.f # 0

\* the continuation test with a threshold that zero passes
KeepsMovingAtZero(v) == Abs(v.x.u) >= 0 \/ Abs(v.y.u) >= 0

\* Math.abs(v.x) > 0.5 || Math.abs(v.y) > 0.5
KeepsMoving(v) == Exceeds(v.x) \/ Exceeds(v.y)

(* ------------------- requestAnimationFrame callbacks ------------------- *)

Zero == [x |-> 0, y |-> 0]

\* the state a callback reads and writes
Cell(o, v, t, af, q, h, lw) ==
  [offset |-> o, velocity |-> v, transform |-> t, animationFrame |-> af,
   pending |-> q, nextHandle |-> h, low |-> lw]

\* the doubles of both axes, from their high and low limbs
Double(hi, lo) == [x |-> Num(hi.x, lo.x), y |-> Num(hi.y, lo.y)]

\* the high limbs of the doubles of both axes
Hi(p) == [x |-> p.x.u, y |-> p.y.u]

\* the low limbs of the doubles of both axes
Lo(p) == [x |-> p.x.f, y |-> p.y.f]

\* updateTransform: write the current offset to the content element
updateTransform(c) ==
  [c EXCEPT !.transform = c.offset, !.low.transform = c.low.offset]

\* a step that applies the velocity after friction instead of before
animateMomentumFrictionFirst(c, vp) ==
  CHOOSE r \in
    { IF KeepsMoving(Double(d.velocity, d.low.velocity))
      THEN [d EXCEPT !.animationFrame = d.nextHandle,
                     !.pending = Append(d.pending,
                                   [id |-> d.nextHandle, cb |-> "animateMomentum"]),
                     !.nextHandle = d.nextHandle + 1]
      ELSE d :
      d \in { updateTransform([c EXCEPT !.offset = Hi(o), !.velocity = Hi(v),
                                        !.low.offset = Lo(o),
                                        !.low.velocity = Lo(v)]) :
            v \in { [x |-> Friction(Num(c.velocity.x, c.low.velocity.x)),
                       y |-> Friction(Num(c.velocity.y, c.low.velocity.y))] },
            o \in { [x |-> ClampNum(MinX(vp), p.x),
                      y |-> ClampNum(MinY(vp), p.y)] :
                    p \in { [x |-> Add(Num(c.offset.x, c.low.offset.x),
                                       Friction(Num(c.velocity.x, c.low.velocity.x))),
                             y |-> Add(Num(c.offset.y, c.low.offset.y),
                                       Friction(Num(c.velocity.y, c.low.velocity.y)))] } } } } : TRUE

\* a step that tests the threshold before moving instead of after
animateMomentumPretest(c, vp) ==
  CHOOSE r \in
    { IF KeepsMoving(Double(c.velocity, c.low.velocity))
      THEN [d EXCEPT !.animationFrame = d.nextHandle,
                     !.pending = Append(d.pending,
                                   [id |-> d.nextHandle, cb |-> "animateMomentum"]),
                     !.nextHandle = d.nextHandle + 1]
      ELSE c :
      d \in { updateTransform([c EXCEPT !.offset = Hi(o), !.velocity = Hi(v),
                                        !.low.offset = Lo(o),
                                        !.low.velocity = Lo(v)]) :
            o \in { [x |-> ClampNum(MinX(vp), p.x),
                      y |-> ClampNum(MinY(vp), p.y)] :
                    p \in { [x |-> Add(Num(c.offset.x, c.low.offset.x),
                                       Num(c.velocity.x, c.low.velocity.x)),
                             y |-> Add(Num(c.offset.y, c.low.offset.y),
                                       Num(c.velocity.y, c.low.velocity.y))] } },
            v \in { [x |-> Friction(Num(c.velocity.x, c.low.velocity.x)),
                       y |-> Friction(Num(c.velocity.y, c.low.velocity.y))] } } } : TRUE

\* a step that reverses the velocity of an axis that reached a bound
animateMomentumBounce(c, vp) ==
  CHOOSE r \in
    { IF KeepsMoving(Double(d.velocity, d.low.velocity))
      THEN [d EXCEPT !.animationFrame = d.nextHandle,
                     !.pending = Append(d.pending,
                                   [id |-> d.nextHandle, cb |-> "animateMomentum"]),
                     !.nextHandle = d.nextHandle + 1]
      ELSE d :
      d \in { updateTransform([c EXCEPT !.offset = Hi(o), !.velocity = Hi(v),
                                        !.low.offset = Lo(o),
                                        !.low.velocity = Lo(v)]) :
            o \in { [x |-> ClampNum(MinX(vp), p.x),
                      y |-> ClampNum(MinY(vp), p.y)] :
                    p \in { [x |-> Add(Num(c.offset.x, c.low.offset.x),
                                       Num(c.velocity.x, c.low.velocity.x)),
                             y |-> Add(Num(c.offset.y, c.low.offset.y),
                                       Num(c.velocity.y, c.low.velocity.y))] } },
            v \in { [x |-> Friction(
                               IF ClampNum(MinX(vp),
                                    Add(Num(c.offset.x, c.low.offset.x),
                                        Num(c.velocity.x, c.low.velocity.x)))
                                  = Add(Num(c.offset.x, c.low.offset.x),
                                        Num(c.velocity.x, c.low.velocity.x))
                               THEN Num(c.velocity.x, c.low.velocity.x)
                               ELSE Num(-c.velocity.x, -c.low.velocity.x)),
                       y |-> Friction(
                               IF ClampNum(MinY(vp),
                                    Add(Num(c.offset.y, c.low.offset.y),
                                        Num(c.velocity.y, c.low.velocity.y)))
                                  = Add(Num(c.offset.y, c.low.offset.y),
                                        Num(c.velocity.y, c.low.velocity.y))
                               THEN Num(c.velocity.y, c.low.velocity.y)
                               ELSE Num(-c.velocity.y, -c.low.velocity.y))] } } } : TRUE

\* animateMomentum: one inertia step: the proposed offset p, the new offset o
\* and the new velocity v (sets of one element, so that each is computed
\* once), the render, and the next step if the velocity is still above the
\* threshold
animateMomentum(c, vp) ==
  CHOOSE r \in
    { IF KeepsMoving(Double(d.velocity, d.low.velocity))
      THEN [d EXCEPT !.animationFrame = d.nextHandle,
                     !.pending = Append(d.pending,
                                   [id |-> d.nextHandle, cb |-> "animateMomentum"]),
                     !.nextHandle = d.nextHandle + 1]
      ELSE d :
      d \in { updateTransform([c EXCEPT !.offset = Hi(o), !.velocity = Hi(v),
                                        !.low.offset = Lo(o),
                                        !.low.velocity = Lo(v)]) :
            o \in { [x |-> ClampNum(MinX(vp), p.x),
                      y |-> ClampNum(MinY(vp), p.y)] :
                    p \in { [x |-> Add(Num(c.offset.x, c.low.offset.x),
                                       Num(c.velocity.x, c.low.velocity.x)),
                             y |-> Add(Num(c.offset.y, c.low.offset.y),
                                       Num(c.velocity.y, c.low.velocity.y))] } },
            v \in { [x |-> Friction(Num(c.velocity.x, c.low.velocity.x)),
                       y |-> Friction(Num(c.velocity.y, c.low.velocity.y))] } } } : TRUE

\* run the callbacks of one frame in the order they were requested
RECURSIVE RunCallbacks(_, _, _)
RunCallbacks(cbs, c, vp) ==
  IF cbs = <<>> THEN c
  ELSE CHOOSE r \in { RunCallbacks(Tail(cbs), d, vp) :
                        d \in { IF Head(cbs).cb = "animateMomentum"
                                THEN animateMomentum(c, vp)
                                ELSE updateTransform(c) } } : TRUE

\* cancelAnimationFrame(id): drop the callback with that handle, if pending
RECURSIVE cancelAnimationFrame(_, _)
cancelAnimationFrame(q, id) ==
  IF q = <<>> THEN <<>>
  ELSE IF Head(q).id = id THEN Tail(q)
  ELSE <<Head(q)>> \o cancelAnimationFrame(Tail(q), id)

\* the pending inertia continuations
RECURSIVE Momentum(_)
Momentum(q) ==
  IF q = <<>> THEN <<>>
  ELSE IF Head(q).cb = "animateMomentum" THEN <<Head(q)>> \o Momentum(Tail(q))
  ELSE Momentum(Tail(q))

\* the pending render continuations
RECURSIVE Renders(_)
Renders(q) ==
  IF q = <<>> THEN <<>>
  ELSE IF Head(q).cb = "updateTransform" THEN <<Head(q)>> \o Renders(Tail(q))
  ELSE Renders(Tail(q))

(* ------------------------------ state ---------------------------------- *)

\* nothing has been released yet
\* no digits below the unit
NoDigits == [offset |-> Zero, velocity |-> Zero, transform |-> Zero]

NoRelease ==
  [offset |-> Zero, velocity |-> Zero, events |-> 0,
   dragging |-> FALSE, inflight |-> 0, low |-> NoDigits]

\* Velocity is (0, 0)
Still == velocity = Zero /\ low.velocity = Zero

\* the history variables of SpecCoast
coast == <<released, ran>>

Points == { [x |-> px, y |-> py] : px \in 0..MaxX, py \in 0..MaxY }

Init ==
  /\ offset = Zero
  /\ isDragging = FALSE
  /\ lastPos = Zero
  /\ velocity = Zero
  /\ animationFrame = 0
  /\ pending = <<>>
  /\ nextHandle = 1
  /\ viewport \in Viewports
  /\ transform = Zero
  /\ events = 0
  /\ lastEvent = "init"
  /\ downPos = Zero
  /\ released = NoRelease
  /\ ran = 0
  /\ low = NoDigits

\* one more event of the given kind is handled
Handled(kind) ==
  /\ events' = events + 1
  /\ lastEvent' = kind

(* ----------------------------- handlers -------------------------------- *)

onPointerDown(e) ==
  /\ Handled("pointerdown")
  /\ pending' = IF animationFrame # 0
                THEN cancelAnimationFrame(pending, animationFrame)
                ELSE pending
  /\ isDragging' = TRUE
  /\ lastPos' = e
  /\ velocity' = Zero
  /\ low' = [low EXCEPT !.velocity = Zero]
  /\ UNCHANGED <<offset, animationFrame, nextHandle, viewport, transform>>

\* a move that keeps a running average of the displacements as velocity
moveWhileDraggingSmoothed(e) ==
  LET dx == Px(e.x - lastPos.x)
      dy == Px(e.y - lastPos.y)
  IN  \E o \in { [x |-> ClampNum(MinX(viewport),
                                 Add(Num(offset.x, low.offset.x), Num(dx, 0))),
                   y |-> ClampNum(MinY(viewport),
                                 Add(Num(offset.y, low.offset.y), Num(dy, 0)))] } :
      /\ nextHandle <= MaxHandle
      /\ offset' = Hi(o)
      /\ velocity' = [x |-> (velocity.x + dx) \div 2,
                      y |-> (velocity.y + dy) \div 2]
      /\ low' = [low EXCEPT !.offset = Lo(o), !.velocity = Zero]
      /\ lastPos' = e
      /\ pending' = Append(pending, [id |-> nextHandle, cb |-> "updateTransform"])
      /\ nextHandle' = nextHandle + 1
      /\ UNCHANGED <<isDragging, animationFrame, viewport, transform, downPos>>

\* a move that records the displacement it applied after clamping
moveWhileDraggingApplied(e) ==
  LET dx == Px(e.x - lastPos.x)
      dy == Px(e.y - lastPos.y)
  IN  \E o \in { [x |-> ClampNum(MinX(viewport),
                                 Add(Num(offset.x, low.offset.x), Num(dx, 0))),
                   y |-> ClampNum(MinY(viewport),
                                 Add(Num(offset.y, low.offset.y), Num(dy, 0)))] } :
      /\ nextHandle <= MaxHandle
      /\ offset' = Hi(o)
      /\ velocity' = [x |-> o.x.u - offset.x, y |-> o.y.u - offset.y]
      /\ low' = [low EXCEPT !.offset = Lo(o), !.velocity = Zero]
      /\ lastPos' = e
      /\ pending' = Append(pending, [id |-> nextHandle, cb |-> "updateTransform"])
      /\ nextHandle' = nextHandle + 1
      /\ UNCHANGED <<isDragging, animationFrame, viewport, transform, downPos>>

\* the body of onPointerMove below its isDragging test
moveWhileDragging(e) ==
  LET dx == Px(e.x - lastPos.x)
      dy == Px(e.y - lastPos.y)
  IN  \E o \in { [x |-> ClampNum(MinX(viewport),
                                 Add(Num(offset.x, low.offset.x), Num(dx, 0))),
                   y |-> ClampNum(MinY(viewport),
                                 Add(Num(offset.y, low.offset.y), Num(dy, 0)))] } :
      /\ nextHandle <= MaxHandle
      /\ offset' = Hi(o)
      /\ velocity' = [x |-> dx, y |-> dy]
      /\ low' = [low EXCEPT !.offset = Lo(o), !.velocity = Zero]
      /\ lastPos' = e
      /\ pending' = Append(pending, [id |-> nextHandle, cb |-> "updateTransform"])
      /\ nextHandle' = nextHandle + 1
      /\ UNCHANGED <<isDragging, animationFrame, viewport, transform, downPos>>

onPointerMoveUnguarded(e) ==
  /\ Handled("pointermove")
  /\ moveWhileDragging(e)

onPointerMove(e) ==
  /\ Handled("pointermove")
  /\ IF ~isDragging
     THEN UNCHANGED <<offset, isDragging, lastPos, velocity, animationFrame,
                      pending, nextHandle, viewport, transform, downPos, low>>
     ELSE moveWhileDragging(e)

\* listener of both pointerup and pointerleave
onPointerUp(kind) ==
  /\ Handled(kind)
  /\ nextHandle <= MaxHandle
  /\ isDragging' = FALSE
  /\ animationFrame' = nextHandle
  /\ pending' = Append(pending, [id |-> nextHandle, cb |-> "animateMomentum"])
  /\ nextHandle' = nextHandle + 1
  /\ UNCHANGED <<offset, lastPos, velocity, viewport, transform, downPos, low>>

\* the window is resized between two events
onResize ==
  /\ Handled("resize")
  /\ viewport' \in Viewports \ {viewport}
  /\ UNCHANGED <<offset, isDragging, lastPos, velocity, animationFrame,
                 pending, nextHandle, transform, downPos, low>>

\* one display refresh: every callback pending at its start runs
refresh ==
  /\ pending # <<>>
  /\ nextHandle + Len(pending) <= MaxHandle + 1
  /\ \E c \in { RunCallbacks(pending,
                   Cell(offset, velocity, transform, animationFrame, <<>>,
                        nextHandle, low),
                   viewport) } :
       /\ offset' = c.offset
       /\ velocity' = c.velocity
       /\ transform' = c.transform
       /\ animationFrame' = c.animationFrame
       /\ pending' = c.pending
       /\ nextHandle' = c.nextHandle
       /\ low' = c.low
  /\ lastEvent' = "frame"
  /\ UNCHANGED <<isDragging, lastPos, viewport, events, downPos>>

Frame == refresh /\ UNCHANGED coast

(* ------------------------ any sequence of events ----------------------- *)

PointerDown ==
  /\ events < MaxEvents
  /\ \E e \in Points : onPointerDown(e)
  /\ UNCHANGED <<downPos, released, ran>>

PointerMove ==
  /\ events < MaxEvents
  /\ \E e \in Points : onPointerMove(e)
  /\ UNCHANGED coast

PointerUp ==
  /\ events < MaxEvents
  /\ onPointerUp("pointerup")
  /\ UNCHANGED coast

PointerLeave ==
  /\ events < MaxEvents
  /\ onPointerUp("pointerleave")
  /\ UNCHANGED coast

Resize ==
  /\ events < MaxEvents
  /\ onResize
  /\ UNCHANGED coast

Next ==
  \/ PointerDown
  \/ PointerMove
  \/ PointerUp
  \/ PointerLeave
  \/ Resize
  \/ Frame

Spec == Init /\ [][Next]_vars

(* ------------------- releases under a refreshing display -------------- *)

\* pointer positions on the first and the last row
LivePoints == { e \in Points : e.y \in {0, MaxY} }

LiveDown ==
  /\ events < MaxLiveEvents
  /\ \E e \in LivePoints : onPointerDown(e)
  /\ UNCHANGED <<downPos, released, ran>>

LiveMove ==
  /\ events < MaxLiveEvents
  /\ \E e \in LivePoints : onPointerMove(e)
  /\ UNCHANGED coast

LiveUp ==
  /\ events < MaxLiveEvents
  /\ onPointerUp("pointerup")
  /\ UNCHANGED coast

LiveLeave ==
  /\ events < MaxLiveEvents
  /\ onPointerUp("pointerleave")
  /\ UNCHANGED coast

NextLive ==
  \/ LiveDown
  \/ LiveMove
  \/ LiveUp
  \/ LiveLeave
  \/ Frame

\* the display keeps refreshing: a pending callback is eventually run
SpecLive == Init /\ [][NextLive]_vars /\ WF_vars(Frame)

(* ------------- gestures along the horizontal axis, with resizes -------- *)

AxisPoints == { e \in Points : e.y = 0 }

AxisDown ==
  /\ events < MaxAxisEvents
  /\ \E e \in AxisPoints : onPointerDown(e)
  /\ UNCHANGED <<downPos, released, ran>>

AxisMove ==
  /\ events < MaxAxisEvents
  /\ \E e \in AxisPoints : onPointerMove(e)
  /\ UNCHANGED coast

AxisUp ==
  /\ events < MaxAxisEvents
  /\ onPointerUp("pointerup")
  /\ UNCHANGED coast

AxisLeave ==
  /\ events < MaxAxisEvents
  /\ onPointerUp("pointerleave")
  /\ UNCHANGED coast

AxisResize ==
  /\ events < MaxAxisEvents
  /\ onResize
  /\ UNCHANGED coast

NextAxis ==
  \/ AxisDown
  \/ AxisMove
  \/ AxisUp
  \/ AxisLeave
  \/ AxisResize
  \/ Frame

SpecAxis == Init /\ [][NextAxis]_vars

(* ------------------- one leftward drag from the origin ----------------- *)

\* the 500 x 500 viewport of the clamped-drag scenario
ScenarioViewport ==
  [clientWidth |-> 500, innerWidth |-> 500, innerHeight |-> 500]

DragPoints == Points \cup { [x |-> 1500, y |-> 0], [x |-> 3000, y |-> 0] }

InitDrag ==
  /\ offset = Zero
  /\ isDragging = FALSE
  /\ lastPos = Zero
  /\ velocity = Zero
  /\ animationFrame = 0
  /\ pending = <<>>
  /\ nextHandle = 1
  /\ viewport \in Viewports \cup {ScenarioViewport}
  /\ transform = Zero
  /\ events = 0
  /\ lastEvent = "init"
  /\ downPos = Zero
  /\ released = NoRelease
  /\ ran = 0
  /\ low = NoDigits

\* the gesture starts at Offset (0,0); downPos keeps where it started
DragDown ==
  /\ events = 0
  /\ \E e \in DragPoints : onPointerDown(e) /\ downPos' = e
  /\ UNCHANGED coast

DragMove ==
  /\ events < MaxEvents
  /\ \E e \in DragPoints :
       /\ isDragging
       /\ e.x <= lastPos.x
       /\ e.y = lastPos.y
       /\ onPointerMove(e)
  /\ UNCHANGED coast

DragUp ==
  /\ events < MaxEvents
  /\ onPointerUp("pointerup")
  /\ UNCHANGED coast

DragLeave ==
  /\ events < MaxEvents
  /\ onPointerUp("pointerleave")
  /\ UNCHANGED coast

NextDrag ==
  \/ DragDown
  \/ DragMove
  \/ DragUp
  \/ DragLeave
  \/ Frame

SpecDrag == InitDrag /\ [][NextDrag]_vars

(* ---------------- one gesture, its release and the coasting ------------ *)

\* pointer positions that give release velocities of 10 and more pixels
\* per event, and one position off the horizontal axis
CoastPoints ==
  { [x |-> 0, y |-> 0], [x |-> 10, y |-> 0], [x |-> 20, y |-> 0],
    [x |-> 120, y |-> 0], [x |-> 0, y |-> 1] }

\* a viewport the content overflows horizontally, and the unmeasured one
CoastViewports ==
  { ScenarioViewport,
    [clientWidth |-> 0, innerWidth |-> 0, innerHeight |-> 0] }

InitCoast ==
  /\ offset = Zero
  /\ isDragging = FALSE
  /\ lastPos = Zero
  /\ velocity = Zero
  /\ animationFrame = 0
  /\ pending = <<>>
  /\ nextHandle = 1
  /\ viewport \in CoastViewports
  /\ transform = Zero
  /\ events = 0
  /\ lastEvent = "init"
  /\ downPos = Zero
  /\ released = NoRelease
  /\ ran = 0
  /\ low = NoDigits

CoastDown ==
  /\ events < MaxCoastEvents
  /\ \E e \in CoastPoints : onPointerDown(e) /\ downPos' = e
  /\ UNCHANGED coast

CoastMove ==
  /\ events < MaxCoastEvents
  /\ \E e \in CoastPoints : onPointerMove(e)
  /\ UNCHANGED coast

\* a terminal event; released keeps what the inertia run starts from
coastRelease(kind) ==
  /\ events < MaxCoastEvents
  /\ onPointerUp(kind)
  /\ released' = [offset |-> offset, velocity |-> velocity,
                  events |-> events + 1, dragging |-> isDragging,
                  inflight |-> Len(Momentum(pending)), low |-> low]
  /\ ran' = 0

CoastUp == coastRelease("pointerup")

CoastLeave == coastRelease("pointerleave")

\* a display refresh; ran counts the inertia steps it runs
CoastFrame ==
  /\ refresh
  /\ ran' = ran + Len(Momentum(pending))
  /\ UNCHANGED released

NextCoast ==
  \/ CoastDown
  \/ CoastMove
  \/ CoastUp
  \/ CoastLeave
  \/ CoastFrame

SpecCoast == InitCoast /\ [][NextCoast]_vars

(* ------------- releases that follow one another, slow gestures --------- *)

\* pointer positions one pixel apart: a release coasts for seven steps
RelayPoints == { [x |-> 0, y |-> 0], [x |-> 1, y |-> 0], [x |-> 0, y |-> 1] }

RelayDown ==
  /\ events < MaxRelayEvents
  /\ \E e \in RelayPoints : onPointerDown(e) /\ downPos' = e
  /\ UNCHANGED coast

RelayMove ==
  /\ events < MaxRelayEvents
  /\ \E e \in RelayPoints : onPointerMove(e)
  /\ UNCHANGED coast

\* a terminal event; released keeps what the inertia run starts from
relayRelease(kind) ==
  /\ events < MaxRelayEvents
  /\ onPointerUp(kind)
  /\ released' = [offset |-> offset, velocity |-> velocity,
                  events |-> events + 1, dragging |-> isDragging,
                  inflight |-> Len(Momentum(pending)), low |-> low]
  /\ ran' = 0

RelayUp == relayRelease("pointerup")

RelayLeave == relayRelease("pointerleave")

NextRelay ==
  \/ RelayDown
  \/ RelayMove
  \/ RelayUp
  \/ RelayLeave
  \/ CoastFrame

SpecRelay == InitCoast /\ [][NextRelay]_vars

(* ------------------------ the clamp on its own ------------------------- *)

\* proposed offsets, in half pixels, on both sides of the legal range
ClampInputs ==
  { k * (Scale \div 2) : k \in (-2 * ClampRange)..(2 * ClampRange) }

\* viewports whose limits run from 0 down to 1 - ClampRange pixels
ClampViewports ==
  { [clientWidth |-> totalWidth - a, innerWidth |-> totalWidth - a,
     innerHeight |-> tallestCard + 32 - b] :
      a \in 0..(ClampRange - 1), b \in 0..(ClampRange - 1) }

\* low limbs of the proposed offsets: none, the least and the greatest
ClampDigits == {0, 1, Guard - 1}

InitClamp ==
  /\ offset \in [x : ClampInputs, y : ClampInputs]
  /\ isDragging = FALSE
  /\ lastPos = Zero
  /\ velocity = Zero
  /\ animationFrame = 0
  /\ pending = <<>>
  /\ nextHandle = 1
  /\ viewport \in ClampViewports
  /\ transform = Zero
  /\ events = 0
  /\ lastEvent = "init"
  /\ downPos = Zero
  /\ released = NoRelease
  /\ ran = 0
  /\ low \in { [NoDigits EXCEPT !.offset =
                   [x |-> d * (IF offset.x > 0 THEN 1
                               ELSE IF offset.x < 0 THEN -1 ELSE k),
                    y |-> d * (IF offset.y > 0 THEN 1
                               ELSE IF offset.y < 0 THEN -1 ELSE k)]] :
                d \in ClampDigits, k \in {-1, 1} }

\* the clamp of both handlers applied to the stored offset, at most twice
ApplyClamp ==
  /\ events < 2
  /\ Handled("clamp")
  /\ \E o \in { [x |-> ClampNum(MinX(viewport), Num(offset.x, low.offset.x)),
                  y |-> ClampNum(MinY(viewport), Num(offset.y, low.offset.y))] } :
       /\ offset' = Hi(o)
       /\ low' = [low EXCEPT !.offset = Lo(o)]
  /\ UNCHANGED <<isDragging, lastPos, velocity, animationFrame, pending,
                 nextHandle, viewport, transform, downPos, released, ran>>

NextClamp == ApplyClamp

SpecClamp == InitClamp /\ [][NextClamp]_vars

(* ---------------------------- sanity ----------------------------------- *)

TypeOK ==
  /\ isDragging \in BOOLEAN
  /\ lastPos \in DragPoints \cup CoastPoints
  /\ downPos \in DragPoints \cup CoastPoints
  /\ viewport \in Viewports \cup {ScenarioViewport} \cup ClampViewports
  /\ events \in 0..Max(Max(MaxEvents, MaxRelayEvents),
                     Max(MaxAxisEvents, MaxCoastEvents))
  /\ ran \in 0..MaxHandle
  /\ released.events \in 0..events
  /\ nextHandle \in 1..(MaxHandle + 1)
  /\ animationFrame \in 0..MaxHandle
  /\ \A k \in {"offset", "velocity", "transform"} :
        /\ low[k].x \in (1 - Guard)..(Guard - 1)
        /\ low[k].y \in (1 - Guard)..(Guard - 1)
  /\ \A k \in {"x", "y"} :
        /\ offset[k] > 0 => low.offset[k] >= 0
        /\ offset[k] < 0 => low.offset[k] <= 0
        /\ velocity[k] > 0 => low.velocity[k] >= 0
        /\ velocity[k] < 0 => low.velocity[k] <= 0

\* the handle cap never stops a display refresh or a handler
NeverCapped == nextHandle + Len(pending) <= MaxHandle

InBounds(o, vp) ==
  /\ MinX(vp) <= o.x /\ o.x <= 0
  /\ MinY(vp) <= o.y /\ o.y <= 0

(* ============================ claims ================================== *)

Terminal == {"pointerup", "pointerleave"}

\* C1: after every mutation of Offset (a move while dragging, or a display
\* refresh that runs an inertia step) Offset.x is in [minX, 0] and Offset.y
\* is in [minY, 0] for the bounds computed at that mutation.
C1_BoundsRespected ==
  [][ ( \/ (isDragging /\ lastEvent' = "pointermove")
        \/ (lastEvent' = "frame" /\ Momentum(pending) # <<>>) )
      => InBounds(offset', viewport') ]_vars

\* a move of two pixels to the left was cut to the one pixel the bounds allow
C1_Witness ==
  /\ isDragging
  /\ lastEvent = "pointermove"
  /\ velocity.x = Px(-2)
  /\ MinXPx(viewport) = -1
  /\ offset.x = Px(-1)

\* C2: immediately after a pointer-down no inertia continuation is pending,
\* and none is pending while DragState is true, so that no inertia step
\* writes Offset or Velocity during a gesture.
C2_DownCancelsInertia ==
  (isDragging \/ lastEvent = "pointerdown") => Momentum(pending) = <<>>

\* C3: at most one inertia continuation is outstanding.
C3_AtMostOneInertia == Len(Momentum(pending)) <= 1

\* C4: a pointer-up or pointer-leave handled while DragState is false leaves
\* Offset, Velocity and the pending continuations unchanged.
C4_IdleReleaseNoOp ==
  [][ (~isDragging /\ lastEvent' \in Terminal)
      => (offset' = offset /\ velocity' = velocity /\ pending' = pending) ]_vars

\* C5: after a release the inertia simulator stops unless a new gesture
\* starts: eventually no inertia continuation is pending and both components
\* of Velocity are at most 0.5 in magnitude.
C5_InertiaTerminates ==
  (~isDragging /\ Momentum(pending) # <<>>)
    ~> (isDragging \/ (Momentum(pending) = <<>> /\ ~KeepsMoving(Double(velocity, low.velocity))))

\* an inertia run from a non-zero velocity has come to rest
C5_Witness ==
  /\ ~isDragging
  /\ lastEvent = "frame"
  /\ pending = <<>>
  /\ velocity.x # 0
  /\ ~KeepsMoving(Double(velocity, low.velocity))
  /\ offset.x < 0

\* C6: a pointer-move handled while DragState is false changes nothing:
\* Offset, Velocity, LastPointerPosition, DragState and the pending
\* continuations stay as they were.
C6_IdleMoveNoOp ==
  [][ (~isDragging /\ lastEvent' = "pointermove")
      => UNCHANGED <<offset, velocity, lastPos, isDragging, pending,
                     animationFrame, nextHandle, transform>> ]_vars

\* a move was handled with no gesture active
C6_Witness == ~isDragging /\ lastEvent = "pointermove"

\* C7 as stated: an inertia step taken with Velocity (0,0) leaves Offset
\* unchanged and schedules no further step.
C7_ZeroVelocityNoMotion ==
  [][ (lastEvent' = "frame" /\ Still /\ Momentum(pending) # <<>>)
      => (offset' = offset /\ Momentum(pending') = <<>>) ]_vars

\* C7 amended: an inertia step taken with Velocity (0,0) schedules no further
\* step and, when Offset lies within the bounds current at the step, leaves
\* Offset unchanged; otherwise it moves Offset onto those bounds.
C7_ZeroVelocityAmended ==
  [][ (lastEvent' = "frame" /\ Still /\ Momentum(pending) # <<>>)
      => /\ Momentum(pending') = <<>>
         /\ Still'
         /\ InBounds(offset, viewport) => offset' = offset
         /\ offset' = [x |-> Clamp(MinX(viewport), offset.x),
                       y |-> Clamp(MinY(viewport), offset.y)] ]_vars

\* a run started with Velocity (0,0) after a drag has ended, Offset in place
C7_Witness ==
  /\ ~isDragging
  /\ lastEvent = "frame"
  /\ velocity = Zero
  /\ pending = <<>>
  /\ animationFrame # 0
  /\ offset.x < 0
  /\ InBounds(offset, viewport)

ZeroViewport(vp) ==
  vp.clientWidth = 0 /\ vp.innerWidth = 0 /\ vp.innerHeight = 0

\* C8 as stated: with zero viewport extents the bounds are zero-range, so no
\* event moves Offset away from (0,0).
C8_ZeroViewportPinned ==
  [][ (ZeroViewport(viewport) /\ offset = Zero) => offset' = Zero ]_vars

\* C8 amended: with zero viewport extents the bounds are the full content
\* extent, minX = -totalWidth and minY = -(tallestCard + 32), and a move
\* while dragging shifts Offset by the pointer's displacement, limited only
\* by 0 and by those bounds.
C8_ZeroViewportFullRange ==
  [][ (ZeroViewport(viewport) /\ isDragging /\ lastEvent' = "pointermove")
      => /\ MinXPx(viewport) = -totalWidth
         /\ MinYPx(viewport) = -(tallestCard + 32)
         /\ offset'.x = Max(Px(-totalWidth),
                            Min(0, offset.x + Px(lastPos'.x - lastPos.x)))
         /\ offset'.y = Max(Px(-(tallestCard + 32)),
                            Min(0, offset.y + Px(lastPos'.y - lastPos.y))) ]_vars

\* the content was panned while the viewport extents were zero
C8_Witness ==
  /\ ZeroViewport(viewport)
  /\ isDragging
  /\ lastEvent = "pointermove"
  /\ offset.x = Px(-2)
  /\ offset.y = Px(-1)

FitsX(vp) == totalWidth <= ContainerWidth(vp)

FitsY(vp) == tallestCard + 32 <= vp.innerHeight

\* C9: when the content does not exceed the viewport on an axis the bound on
\* that axis is 0 and no gesture event or inertia step moves Offset on that
\* axis away from 0.
C9_SmallContentPinned ==
  [][ /\ (FitsX(viewport) /\ viewport' = viewport /\ offset.x = 0)
         => (MinXPx(viewport) = 0 /\ offset'.x = 0)
      /\ (FitsY(viewport) /\ viewport' = viewport /\ offset.y = 0)
         => (MinYPx(viewport) = 0 /\ offset'.y = 0) ]_vars

\* a diagonal move was handled with the content fitting on both axes
C9_Witness ==
  /\ FitsX(viewport)
  /\ FitsY(viewport)
  /\ isDragging
  /\ lastEvent = "pointermove"
  /\ velocity.x # 0
  /\ velocity.y # 0
  /\ offset = Zero

\* C10: in a gesture that starts at Offset (0,0) and only moves left, once
\* the moves sum to at least |minX| Offset is exactly (minX, 0).
C10_ClampSaturates ==
  (lastEvent # "init" /\ Px(downPos.x - lastPos.x) >= -MinX(viewport))
    => offset = [x |-> MinX(viewport), y |-> 0]

\* the scenario of the 500 pixel wide viewport: 3000 pixels to the left in
\* two moves
C10_Witness ==
  /\ viewport = ScenarioViewport
  /\ isDragging
  /\ events = 3
  /\ downPos.x = 3000
  /\ lastPos.x = 0
  /\ offset.x = MinX(viewport)
  /\ MinXPx(viewport) < 0

\* C11: the clamp is idempotent: for every proposed offset and every bounds
\* with minX <= 0 and minY <= 0, clamping an already clamped offset returns
\* it unchanged.
C11_ClampIdempotent ==
  [][ (events >= 1 /\ MinX(viewport) <= 0 /\ MinY(viewport) <= 0)
      => (offset' = offset /\ low' = low) ]_vars

\* an offset was clamped twice and sits on the far corner of the range
C11_Witness ==
  /\ events = 2
  /\ lastEvent = "clamp"
  /\ MinXPx(viewport) = -2
  /\ MinYPx(viewport) = -1
  /\ offset = [x |-> Px(-2), y |-> Px(-1)]

(* ------------------- claims about release and coasting ----------------- *)

\* the last pointer event was a terminal event and every inertia run that
\* was pending has ended
Coasted ==
  /\ events > 0
  /\ released.events = events
  /\ Momentum(pending) = <<>>

\* The least n >= 1 with a * 0.9^n <= 0.5, by interval arithmetic on a grid
\* of 1/(100 * Scale) pixel: lo <= a * 0.9^n <= hi.  -1 when the grid is too
\* coarse to decide.
RECURSIVE LeastSteps(_, _, _)
LeastSteps(lo, hi, n) ==
  LET lo1 == (lo * 9) \div 10
      hi1 == (hi * 9 + 9) \div 10
  IN  IF hi1 <= 50 * Scale THEN n + 1
      ELSE IF lo1 > 50 * Scale THEN LeastSteps(lo1, hi1, n + 1)
      ELSE -1

StepsX(v) == LeastSteps(100 * Abs(v.x), 100 * Abs(v.x), 0)

StepsY(v) == LeastSteps(100 * Abs(v.y), 100 * Abs(v.y), 0)

\* C12: after a release that ends a gesture, with no further pointer event,
\* the inertia simulator executes exactly the least n >= 1 steps for which
\* |v0.x| * 0.9^n <= 0.5 and |v0.y| * 0.9^n <= 0.5, v0 being the Velocity at
\* the release; 29 steps for v0 = (10, 0).
C12_ReleaseSteps ==
  (Coasted /\ released.dragging) =>
     /\ StepsX(released.velocity) >= 1
     /\ StepsY(released.velocity) >= 1
     /\ ran = Max(StepsX(released.velocity), StepsY(released.velocity))
     /\ released.velocity = [x |-> Px(10), y |-> 0] => ran = 29

\* the sum of the first n terms of 10, 10 * 0.9, 10 * 0.9^2, ... on a grid
\* of 1/(100 * Scale) pixel, v being the next term
RECURSIVE GeoSum(_, _)
GeoSum(v, n) == IF n = 0 THEN 0 ELSE v + GeoSum((v * 9) \div 10, n - 1)

\* a release with Velocity (10, 0) from which no step reaches a bound
FreeRun ==
  /\ Coasted
  /\ released.velocity = [x |-> Px(10), y |-> 0]
  /\ released.offset.x <= Px(-100)
  /\ MinX(viewport) <= released.offset.x

\* C13 as stated: after a release with Velocity (10, 0) and no clamping
\* during the run, Offset.x has changed by about 99.3 pixels in all
\* (within half a pixel).
C13_TotalIs99 ==
  FreeRun => Abs((offset.x - released.offset.x) - 993 * (Scale \div 10))
               <= Scale \div 2

\* C13 amended: after such a release Offset.x has changed by the geometric
\* sum 10 * (1 - 0.9^n) / (1 - 0.9) over the n steps executed (within 0.005
\* pixel); a release with no other run pending executes 29 steps and the
\* sum is about 95.3 pixels (within 0.05 pixel).
C13_TotalIsGeometricSum ==
  FreeRun =>
     /\ Abs(100 * (offset.x - released.offset.x) - GeoSum(1000 * Scale, ran))
          <= Scale \div 2
     /\ released.inflight = 0 =>
          /\ ran = 29
          /\ Abs((offset.x - released.offset.x) - 953 * (Scale \div 10))
               <= Scale \div 20

C13_Witness ==
  /\ FreeRun
  /\ released.inflight = 0
  /\ released.dragging
  /\ released.offset.x = Px(-100)
  /\ ran = 29
  /\ offset.x > Px(-5)

\* a terminal event ended a gesture and no pointer event followed
Released ==
  /\ events > 0
  /\ released.events = events
  /\ released.dragging

\* C14 as stated: for every gesture whose pointer position at release is
\* the position at pointer-down, Velocity at release is (0,0) and the
\* inertia run that follows does not change Offset.
C14_ZeroNetMovement ==
  (Released /\ lastPos = downPos) =>
     (released.velocity = Zero /\ released.low.velocity = Zero
        /\ offset = released.offset)

\* C14 amended: Velocity at release is the displacement of the last move
\* event alone: it is (0,0) after a pointer-down with no move since and
\* after a move of zero displacement, and a terminal event keeps it; steps
\* that run with Velocity (0,0) leave Offset and Velocity as they are (the
\* viewport not changing), so after such a release Offset stays where it
\* was.
C14_ZeroLastMove ==
  /\ [][ /\ lastEvent' = "pointerdown" => Still'
         /\ (isDragging /\ lastEvent' = "pointermove" /\ lastPos' = lastPos)
              => Still'
         /\ lastEvent' \in Terminal
              => (velocity' = velocity /\ offset' = offset)
         /\ (lastEvent' = "frame" /\ Still)
              => (Still' /\ offset' = offset) ]_vars
  /\ [](Released /\ released.velocity = Zero /\ released.low.velocity = Zero
          => Still /\ offset = released.offset)

C14_Witness ==
  /\ Released
  /\ Coasted
  /\ ran >= 1
  /\ released.velocity = Zero
  /\ lastPos # downPos
  /\ offset.x < 0
  /\ offset = released.offset

\* the step of a run started while no other run was pending moves Offset by
\* the Velocity of the release, clamped, whatever its magnitude (to within
\* one unit of 1/Scale pixel, released holding the truncated values); when
\* that Velocity is at most 0.5 on both axes the run stops after this one
\* step
StepMovesOnce ==
  (events > 0 /\ released.events = events /\ released.inflight = 0 /\ ran >= 1)
    => /\ ran = 1 =>
            /\ Abs(offset.x - Max(MinX(viewport),
                                   Min(0, released.offset.x + released.velocity.x)))
                 <= 1
            /\ Abs(offset.y - Max(MinY(viewport),
                                   Min(0, released.offset.y + released.velocity.y)))
                 <= 1
       /\ (2 * Abs(released.velocity.x) <= Scale
             /\ 2 * Abs(released.velocity.y) <= Scale)
            => (ran = 1 /\ Momentum(pending) = <<>>)

\* C20 as stated: every started inertia run executes at least one step (a
\* pending inertia continuation stays pending until a refresh runs it), and
\* a release with a Velocity at most 0.5 in magnitude still moves Offset
\* once by that Velocity before the run stops.
C20_EveryRunSteps ==
  /\ [][ \A i \in DOMAIN pending :
            pending[i].cb = "animateMomentum"
              => \/ lastEvent' = "frame"
                 \/ \E j \in DOMAIN pending' : pending'[j] = pending[i] ]_vars
  /\ []StepMovesOnce

\* the offset and the velocity that n inertia steps make of the doubles o
\* and v: each step adds the velocity it finds, clamps, and decays it
RECURSIVE Stepped(_, _, _, _)
Stepped(n, o, v, vp) ==
  IF n = 0 THEN [offset |-> o, velocity |-> v]
  ELSE Stepped(n - 1,
               [x |-> ClampNum(MinX(vp), Add(o.x, v.x)),
                y |-> ClampNum(MinY(vp), Add(o.y, v.y))],
               [x |-> Friction(v.x), y |-> Friction(v.y)],
               vp)

\* a display refresh runs one step of every inertia run that is pending,
\* whatever the Velocity: Offset and Velocity end where that many steps
\* take them, and as many runs go on as there are steps that left the
\* Velocity above the threshold
EachRunSteps ==
  lastEvent' = "frame" =>
    LET n == Len(Momentum(pending))
        o == Double(offset, low.offset)
        v == Double(velocity, low.velocity)
    IN  /\ Double(offset', low'.offset) = Stepped(n, o, v, viewport).offset
        /\ Double(velocity', low'.velocity) = Stepped(n, o, v, viewport).velocity
        /\ Len(Momentum(pending'))
             = Cardinality({ k \in 1..n :
                               KeepsMoving(Stepped(k, o, v, viewport).velocity) })

\* C20 amended: every started inertia run executes at least one step unless
\* a pointer-down cancels it before the next refresh (only the run whose
\* handle is the stored one can be cancelled); the step is not gated by the
\* threshold: each run pending at a refresh executes one step, which moves
\* Offset by the Velocity it finds and decays it, so a release with a
\* Velocity at most 0.5 in magnitude still moves Offset, and when no other
\* run is pending at that release Offset moves exactly once, by the
\* Velocity of the release, before the run stops.
C20_EveryRunStepsUnlessCancelled ==
  /\ [][ /\ \A i \in DOMAIN pending :
               pending[i].cb = "animateMomentum"
                 => \/ lastEvent' = "frame"
                    \/ \E j \in DOMAIN pending' : pending'[j] = pending[i]
                    \/ (lastEvent' = "pointerdown"
                          /\ pending[i].id = animationFrame)
         /\ EachRunSteps ]_vars
  /\ []StepMovesOnce

C20_Witness ==
  /\ events > 0
  /\ released.events = events
  /\ released.inflight = 0
  /\ ran = 1
  /\ Momentum(pending) = <<>>
  /\ released.velocity.x # 0
  /\ 2 * Abs(released.velocity.x) <= Scale
  /\ offset.x # released.offset.x
  /\ Abs(offset.x - (released.offset.x + released.velocity.x)) <= 1

(* --------------------- claims about single handlers -------------------- *)

\* C15: move renders are coalesced: however many pointer-move events are
\* processed between two display refreshes, at most one render continuation
\* is pending (so exactly one render is performed at the next refresh).
C15_RendersCoalesced == Len(Renders(pending)) <= 1

\* what C16 says of one axis over a refresh that runs inertia steps: an
\* Offset pinned at a boundary with Velocity pushing outward stays there,
\* and Velocity keeps its sign and does not grow
AxisSticks(lo, o, v, o2, v2) ==
  /\ (o = 0 /\ v >= 0) => o2 = 0
  /\ (o = lo /\ lo <= 0 /\ v <= 0) => o2 = lo
  /\ v >= 0 => (v2 >= 0 /\ v2 <= v)
  /\ v <= 0 => (v2 <= 0 /\ v2 >= v)

\* what C16 says of one axis over a single inertia step: Offset advances by
\* the Velocity of its own axis up to the boundary, and Velocity decays by
\* 0.9 (both to within one unit of 1/Scale pixel: the arguments are the
\* values truncated to that unit)
AxisAdvances(lo, o, v, o2, v2) ==
  /\ Abs(o2 - Max(lo, Min(0, o + v))) <= 1
  /\ Abs(10 * v2 - 9 * v) <= 10

\* C16: during inertia the axes are independent and there is no bounce: an
\* Offset pinned at 0 or min with Velocity pushing outward stays at the
\* boundary, Velocity keeps its sign and decays by 0.9 per step, the other
\* axis advances by its own Velocity, and the run continues exactly until
\* both components of Velocity are at most 0.5, whatever Offset is.
C16_AxesIndependent ==
  [][ (lastEvent' = "frame" /\ Momentum(pending) # <<>>) =>
        /\ AxisSticks(MinX(viewport), offset.x, velocity.x, offset'.x, velocity'.x)
        /\ AxisSticks(MinY(viewport), offset.y, velocity.y, offset'.y, velocity'.y)
        /\ Len(Momentum(pending)) = 1 =>
             /\ AxisAdvances(MinX(viewport), offset.x, velocity.x,
                              offset'.x, velocity'.x)
             /\ AxisAdvances(MinY(viewport), offset.y, velocity.y,
                              offset'.y, velocity'.y)
             /\ Momentum(pending') # <<>>
                  <=> \/ 2 * Abs(velocity'.x) > Scale
                      \/ 2 * Abs(velocity'.x) = Scale /\ low'.velocity.x # 0
                      \/ 2 * Abs(velocity'.y) > Scale
                      \/ 2 * Abs(velocity'.y) = Scale /\ low'.velocity.y # 0
    ]_vars

C16_Witness ==
  /\ lastEvent = "frame"
  /\ Len(Momentum(pending)) = 1
  /\ offset = [x |-> 0, y |-> Px(-2)]
  /\ velocity = [x |-> (9 * Px(2)) \div 10, y |-> -((9 * Px(1)) \div 10)]

\* C17: after every pointer-move processed while dragging, Velocity is the
\* raw displacement of that event (its position minus the previous
\* LastPointerPosition), also when clamping made Offset change by less, and
\* LastPointerPosition is the event's position (the step is the handling of
\* a move at the position that LastPointerPosition holds afterwards).
C17_VelocityIsRawDisplacement ==
  [][ (isDragging /\ lastEvent' = "pointermove") =>
        /\ velocity' = [x |-> Px(lastPos'.x - lastPos.x),
                        y |-> Px(lastPos'.y - lastPos.y)]
        /\ low'.velocity = Zero
        /\ \E e \in Points : lastPos' = e /\ onPointerMove(e) ]_vars

C17_Witness ==
  /\ events = 2
  /\ lastEvent = "pointermove"
  /\ isDragging
  /\ MinXPx(viewport) = -1
  /\ lastPos = [x |-> 0, y |-> 0]
  /\ velocity = [x |-> Px(-2), y |-> 0]
  /\ offset.x = Px(-1)

\* the first refresh after a terminal event that ended a gesture has run,
\* and with it the first step of the inertia run that this event scheduled
FirstStepRan ==
  /\ Released
  /\ lastEvent = "frame"
  /\ ran = released.inflight + 1

\* C18: a terminal event during a gesture leaves Offset and Velocity as they
\* are at the moment it is handled, sets DragState to false and schedules an
\* inertia run (the last continuation requested), and that run starts from
\* the Velocity of the last move of the gesture: its first step leaves
\* Velocity at 0.9 times the Velocity of the release.
C18_ReleaseHandsOver ==
  /\ [][ (isDragging /\ lastEvent' \in Terminal) =>
          /\ offset' = offset
          /\ velocity' = velocity
          /\ ~isDragging'
          /\ Len(pending') = Len(pending) + 1
          /\ pending'[Len(pending')]
               = [id |-> animationFrame', cb |-> "animateMomentum"]
          /\ \A i \in DOMAIN pending : pending'[i] = pending[i]
                                          /\ pending[i].id # animationFrame' ]_vars
  /\ [](FirstStepRan =>
          Double(velocity, low.velocity)
            = [x |-> Friction(Num(released.velocity.x, released.low.velocity.x)),
               y |-> Friction(Num(released.velocity.y, released.low.velocity.y))])

\* C19: when the viewport size may change between events, every Offset a
\* render applies lies within [min, 0] for the viewport current at the time
\* of the render.
C19_RenderedInBounds == lastEvent = "frame" => InBounds(transform, viewport)

====
